---- MODULE Spec2Model ----
(***************************************************************************)
(* njsPC-HA entity adapters (climate.py, sensor.py, light.py).             *)
(*                                                                         *)
(* Every adapter is an object that owns a cached projection of one         *)
(* subject, is called back by the coordinator with the last event          *)
(* (coordinator.data) and forwards user commands to coordinator.api.       *)
(* The adapters share no state, so the model follows ONE adapter, drawn    *)
(* at Init from everything async_setup_entry can construct, through every  *)
(* sequence of callbacks and commands.                                     *)
(*                                                                         *)
(* Python values:                                                          *)
(*   dict            a function whose DOMAIN is the set of its keys;       *)
(*                   d[k] on a missing key raises KeyError                 *)
(*   code->label     a sequence of <<code, label>> pairs with distinct     *)
(*   table           codes, in insertion order                             *)
(*   None            the empty tuple <<>>; any other value v is <<v>>      *)
(*   float degrees   an integer number of hundredths of a degree           *)
(***************************************************************************)
EXTENDS Integers, Sequences, FiniteSets, TLC

VARIABLES
    adapter,    \* the entity adapter object: its class and its fields
    call        \* what the last callback or command did, as seen from outside

vars == <<adapter, call>>

(***************************************************************************)
(* Bounds of the model.                                                    *)
(***************************************************************************)
\* subject ids run over 7..MaxId
MaxId == 8
\* heat-status codes run over 0..MaxCode, and 128, 129
MaxCode == 9
\* a configuration lists at most MaxEquipment pumps and as many chlorinators
MaxEquipment == 2

(***************************************************************************)
(* const.py: event kinds and command urls (opaque, pairwise distinct).     *)
(***************************************************************************)
EVENT_AVAILABILITY == "availability"
EVENT_BODY == "body"
EVENT_CHLORINATOR == "chlorinator"
EVENT_CIRCUIT == "circuit"
EVENT_LIGHTGROUP == "lightGroup"
EVENT_PUMP == "pump"
EVENT_TEMPS == "temps"

API_CIRCUIT_SETSTATE == "state/circuit/setState"
API_CIRCUIT_SETTHEME == "state/circuit/setTheme"
API_LIGHTGROUP_SETSTATE == "state/lightGroup/setState"
API_BODY_SETPOINT == "state/body/setPoint"
API_BODY_HEATMODE == "state/body/heatMode"

(***************************************************************************)
(* Python values.                                                          *)
(***************************************************************************)
None == <<>>
Some(v) == <<v>>

Has(d, k) == k \in DOMAIN d

\* the dict d without the keys outside K
Restrict(d, K) == [k \in (DOMAIN d) \cap K |-> d[k]]

\* the partial payloads of a record d: the keys `always` with all, all but
\* one, one or none of the other keys of d
Partial(d, always) ==
    LET optional == (DOMAIN d) \ always
    IN  { Restrict(d, always \cup K) :
            K \in { L \in SUBSET optional :
                      \/ Cardinality(L) <= 1
                      \/ Cardinality(L) >= Cardinality(optional) - 1 } }

\* table[code] of a code->label table; the code must be a key
TableKeys(table) == { table[i][1] : i \in 1..Len(table) }
TableGet(table, code) ==
    table[CHOOSE i \in 1..Len(table) : table[i][1] = code][2]

\* round(x, 1) of a float given in hundredths: round-half-even to a tenth
Round1(h) ==
    LET q == h \div 10
        r == h % 10
    IN  IF r < 5 THEN 10 * q
        ELSE IF r > 5 THEN 10 * (q + 1)
        ELSE IF q % 2 = 0 THEN 10 * q ELSE 10 * (q + 1)

(***************************************************************************)
(* Subjects of the controller configuration and the events of the update   *)
(* channel: the bounded inputs.                                            *)
(***************************************************************************)
Ids == 7..MaxId

HeatStatusCodes == (0..MaxCode) \cup {128, 129}

BaseBody(id) ==
    [id |-> id, name |-> "Pool", setPoint |-> 80, temp |-> 78,
     type |-> [val |-> 0], heatMode |-> [val |-> 1],
     heatStatus |-> [val |-> 0]]

\* body records: partial payloads for every id; for body 7 also every heat
\* status, every body type (a type object may come without its val) and
\* other heat modes
Bodies ==
    UNION { Partial(BaseBody(id), {"id"}) : id \in Ids }
    \cup { [BaseBody(7) EXCEPT !.heatStatus = [val |-> c]] :
             c \in HeatStatusCodes }
    \cup { [BaseBody(7) EXCEPT !.type = t, !.setPoint = 84] :
             t \in {[val |-> 0], [val |-> 1], [val |-> 2], [name |-> "spa"]} }
    \cup { [BaseBody(7) EXCEPT !.heatMode = [val |-> m], !.temp = 79] :
             m \in {3, 5} }

BasePump(id) ==
    [id |-> id, name |-> "Pump", rpm |-> 1000, watts |-> 300,
     minSpeed |-> 450, maxSpeed |-> 3450, status |-> [desc |-> "Ok"]]

Pumps ==
    UNION { Partial(BasePump(id), {"id", "name", "minSpeed", "maxSpeed"}) :
            id \in Ids }
    \cup { [BasePump(7) EXCEPT !.rpm = r] : r \in {2200, 3000} }
    \cup { [BasePump(7) EXCEPT !.watts = 900,
                                !.status = [desc |-> "Stopped"]] }

BaseChlorinator(id) ==
    [id |-> id, name |-> "Chlorinator", saltLevel |-> 3000,
     saltTarget |-> 3400, saltRequired |-> 0, status |-> [desc |-> "Ok"]]

Chlorinators ==
    UNION { Partial(BaseChlorinator(id), {"id"}) : id \in Ids }
    \cup { [BaseChlorinator(7) EXCEPT !.saltLevel = 2600, !.saltRequired = 12,
                                       !.status = [desc |-> "Low Salt"]] }

BaseCircuit(id) ==
    [id |-> id, name |-> "Light", isOn |-> FALSE,
     lightingTheme |-> [val |-> 0]]

Circuits ==
    UNION { Partial(BaseCircuit(id), {"id", "name"}) : id \in Ids }
    \cup { [BaseCircuit(7) EXCEPT !.isOn = on, !.lightingTheme = [val |-> t]] :
             on \in BOOLEAN, t \in {0, 4} }

BaseTemps == [air |-> 7820, waterSensor1 |-> 8100]

Temps ==
    Partial(BaseTemps, {})
    \cup { [BaseTemps EXCEPT !.air = a] : a \in {7825, 7875, 7849} }

WithEvent(kind, payload) == [event |-> kind] @@ payload

Events ==
    { WithEvent(EVENT_BODY, b) : b \in Bodies }
    \cup { WithEvent(EVENT_PUMP, p) : p \in Pumps }
    \cup { WithEvent(EVENT_CHLORINATOR, c) : c \in Chlorinators }
    \cup { WithEvent(EVENT_CIRCUIT, c) : c \in Circuits }
    \cup { WithEvent(EVENT_LIGHTGROUP, c) : c \in Circuits }
    \cup { WithEvent(EVENT_TEMPS, t) : t \in Temps }
    \cup { WithEvent(EVENT_TEMPS, [id |-> i] @@ BaseTemps) : i \in Ids }
    \cup { [event |-> EVENT_AVAILABILITY, available |-> a] : a \in BOOLEAN }
    \cup { [event |-> EVENT_AVAILABILITY, available |-> a, id |-> i] :
             a \in BOOLEAN, i \in Ids }

(***************************************************************************)
(* Outcome of one callback or command.                                     *)
(***************************************************************************)
NoException == "None"
KeyError == "KeyError"

\* the callback returned: adapter object `self`, `n` calls of
\* async_write_ha_state
Returned(self, n) == [self |-> self, refresh |-> n, raised |-> NoException]
\* the callback raised with the adapter object as it was at the raise
Raised(self, exc) == [self |-> self, refresh |-> 0, raised |-> exc]

\* a property read returned v, or raised
Value(v) == [raised |-> NoException, value |-> Some(v)]
Throws(exc) == [raised |-> exc, value |-> None]

\* a command method ended: the commands it handed to coordinator.api.command,
\* in order, and its calls of coordinator.logger.error
Ended(self, sent, logged) ==
    [self |-> self, sent |-> sent, logged |-> logged, raised |-> NoException]
Failed(self, exc) ==
    [self |-> self, sent |-> <<>>, logged |-> 0, raised |-> exc]

\* next((k for k, v in table.items() if v == label), None)
ReverseLookup(table, label) ==
    LET hits == { i \in 1..Len(table) : table[i][2] = label }
    IN  IF hits = {} THEN None
        ELSE Some(table[CHOOSE i \in hits : \A j \in hits : i <= j][1])

(***************************************************************************)
(* climate.py: Climate.                                                    *)
(***************************************************************************)
Climate(body, heatmodes, units) ==
    [cls |-> "Climate", _body |-> body, _heatmodes |-> heatmodes,
     _units |-> units]

\* _handle_coordinator_update updating the cached record with the event
\* (self._body.update(data)) instead of replacing it
Climate_update_merges(self, data) ==
    IF data.event # EVENT_BODY THEN Returned(self, 0)
    ELSE IF ~Has(data, "id") \/ ~Has(self._body, "id")
        THEN Raised(self, KeyError)
    ELSE IF data.id # self._body.id THEN Returned(self, 0)
    ELSE Returned([self EXCEPT !._body = data @@ self._body], 1)

\* _handle_coordinator_update replacing the cached record on every body
\* event, without comparing the id
Climate_update_any_body(self, data) ==
    IF data.event # EVENT_BODY THEN Returned(self, 0)
    ELSE Returned([self EXCEPT !._body = data], 1)

Climate_handle_coordinator_update(self, data) ==
    IF ~Has(data, "event") THEN Raised(self, KeyError)
    ELSE IF data.event # EVENT_BODY THEN Returned(self, 0)
    ELSE IF ~Has(data, "id") \/ ~Has(self._body, "id")
        THEN Raised(self, KeyError)
    ELSE IF data.id # self._body.id THEN Returned(self, 0)
    ELSE Returned([self EXCEPT !._body = data], 1)

\* the table with the entry of code 8 left out
NJSPC_HVAC_ACTION_without_8 ==
    << <<0, "off">>, <<1, "heating">>, <<2, "heating">>, <<3, "cooling">>,
       <<4, "heating">>, <<6, "heating">>, <<128, "off">> >>

NJSPC_HVAC_ACTION_TO_HASS ==
    << <<0, "off">>, <<1, "heating">>, <<2, "heating">>, <<3, "cooling">>,
       <<4, "heating">>, <<6, "heating">>, <<8, "cooling">>, <<128, "off">> >>

Climate_name(self) ==
    IF ~Has(self._body, "name") THEN Throws(KeyError)
    ELSE Value(<<self._body.name, " Heater">>)

Climate_target_temperature(self) ==
    IF ~Has(self._body, "setPoint") THEN Throws(KeyError)
    ELSE Value(self._body.setPoint)

Climate_current_temperature(self) ==
    IF ~Has(self._body, "temp") THEN Throws(KeyError)
    ELSE Value(self._body.temp)

\* self._body["type"]["val"] evaluates without raising
HasTypeVal(self) == Has(self._body, "type") /\ Has(self._body.type, "val")

\* min_temp whose except branch gives the spa minimum
Climate_min_temp_defaults_to_spa(self) ==
    IF HasTypeVal(self)
    THEN IF self._body.type.val = 0
         THEN Value(IF self._units = 0 THEN 70 ELSE 21)
         ELSE Value(IF self._units = 0 THEN 90 ELSE 32)
    ELSE Value(IF self._units = 0 THEN 90 ELSE 32)

Climate_min_temp(self) ==
    IF HasTypeVal(self)
    THEN IF self._body.type.val = 0
         THEN Value(IF self._units = 0 THEN 70 ELSE 21)
         ELSE Value(IF self._units = 0 THEN 90 ELSE 32)
    ELSE Value(IF self._units = 0 THEN 70 ELSE 21)

Climate_max_temp(self) ==
    IF HasTypeVal(self)
    THEN IF self._body.type.val = 0
         THEN Value(IF self._units = 0 THEN 95 ELSE 35)
         ELSE Value(IF self._units = 0 THEN 104 ELSE 40)
    ELSE Value(IF self._units = 0 THEN 95 ELSE 35)

Climate_preset_mode(self) ==
    IF /\ Has(self._body, "heatMode")
       /\ Has(self._body.heatMode, "val")
       /\ self._body.heatMode.val \in TableKeys(self._heatmodes)
    THEN Value(TableGet(self._heatmodes, self._body.heatMode.val))
    ELSE Value("Off")

Climate_hvac_action(self) ==
    IF /\ Has(self._body, "heatStatus")
       /\ Has(self._body.heatStatus, "val")
       /\ self._body.heatStatus.val \in TableKeys(NJSPC_HVAC_ACTION_TO_HASS)
    THEN Value(TableGet(NJSPC_HVAC_ACTION_TO_HASS, self._body.heatStatus.val))
    ELSE Value("off")

Climate_async_set_temperature(self, temperature) ==
    IF ~Has(self._body, "id") THEN Failed(self, KeyError)
    ELSE Ended(self, << [url |-> API_BODY_SETPOINT,
                   data |-> [id |-> self._body.id,
                             heatSetpoint |-> temperature]] >>, 0)

\* async_set_preset_mode without the test of njspc_value for None
Climate_set_preset_unchecked(self, preset_mode) ==
    Ended(self, << [url |-> API_BODY_HEATMODE,
              data |-> [id |-> self._body.id,
                        mode |-> ReverseLookup(self._heatmodes, preset_mode)]] >>,
          0)

Climate_async_set_preset_mode(self, preset_mode) ==
    LET njspc_value == ReverseLookup(self._heatmodes, preset_mode)
    IN  IF njspc_value = None THEN Ended(self, <<>>, 1)
        ELSE IF ~Has(self._body, "id") THEN Failed(self, KeyError)
        ELSE Ended(self, << [url |-> API_BODY_HEATMODE,
                       data |-> [id |-> self._body.id,
                                 mode |-> njspc_value[1]]] >>, 0)

(***************************************************************************)
(* sensor.py: TempSensor, RPMSensor, PowerSensor, SaltSensor, StatusSensor.*)
(***************************************************************************)
TempSensor(temps, key, units) ==
    [cls |-> "TempSensor", _key |-> key, _units |-> units,
     _value |-> Round1(temps[key])]

TempSensor_handle_coordinator_update(self, data) ==
    IF ~Has(data, "event") THEN Raised(self, KeyError)
    ELSE IF data.event # EVENT_TEMPS THEN Returned(self, 0)
    ELSE IF ~Has(data, self._key) THEN Raised(self, KeyError)
    ELSE Returned([self EXCEPT !._value = Round1(data[self._key])], 1)

RPMSensor(pump) ==
    [cls |-> "RPMSensor", _pump |-> pump, _value |-> pump.rpm]

\* RPMSensor._handle_coordinator_update without the comparison of ids
RPMSensor_update_any_pump(self, data) ==
    IF data.event # EVENT_PUMP THEN Returned(self, 0)
    ELSE IF ~Has(data, "rpm") THEN Raised(self, KeyError)
    ELSE Returned([self EXCEPT !._value = data.rpm], 1)

RPMSensor_handle_coordinator_update(self, data) ==
    IF ~Has(data, "event") THEN Raised(self, KeyError)
    ELSE IF data.event # EVENT_PUMP THEN Returned(self, 0)
    ELSE IF ~Has(data, "id") \/ ~Has(self._pump, "id")
        THEN Raised(self, KeyError)
    ELSE IF data.id # self._pump.id THEN Returned(self, 0)
    ELSE IF ~Has(data, "rpm") THEN Raised(self, KeyError)
    ELSE Returned([self EXCEPT !._value = data.rpm], 1)

PowerSensor(pump) ==
    [cls |-> "PowerSensor", _pump |-> pump, _value |-> pump.watts]

PowerSensor_handle_coordinator_update(self, data) ==
    IF ~Has(data, "event") THEN Raised(self, KeyError)
    ELSE IF data.event # EVENT_PUMP THEN Returned(self, 0)
    ELSE IF ~Has(data, "id") \/ ~Has(self._pump, "id")
        THEN Raised(self, KeyError)
    ELSE IF data.id # self._pump.id THEN Returned(self, 0)
    ELSE IF ~Has(data, "watts") THEN Raised(self, KeyError)
    ELSE Returned([self EXCEPT !._value = data.watts], 1)

SaltSensor(chlorinator) ==
    [cls |-> "SaltSensor", _chlorinator |-> chlorinator,
     _value |-> chlorinator.saltLevel]

SaltSensor_handle_coordinator_update(self, data) ==
    IF ~Has(data, "event") THEN Raised(self, KeyError)
    ELSE IF data.event # EVENT_CHLORINATOR THEN Returned(self, 0)
    ELSE IF ~Has(data, "id") \/ ~Has(self._chlorinator, "id")
        THEN Raised(self, KeyError)
    ELSE IF data.id # self._chlorinator.id THEN Returned(self, 0)
    ELSE Returned([self EXCEPT !._chlorinator = data], 1)

SaltSensor_name(self) ==
    IF ~Has(self._chlorinator, "name") THEN Throws(KeyError)
    ELSE Value(<<self._chlorinator.name, " Salt Level">>)

SaltSensor_native_value(self) ==
    IF ~Has(self._chlorinator, "saltLevel") THEN Throws(KeyError)
    ELSE Value(self._chlorinator.saltLevel)

SaltSensor_extra_state_attributes(self) ==
    IF ~Has(self._chlorinator, "saltTarget") THEN Throws(KeyError)
    ELSE IF ~Has(self._chlorinator, "saltRequired") THEN Throws(KeyError)
    ELSE Value([salt_target |-> self._chlorinator.saltTarget,
                salt_required |-> self._chlorinator.saltRequired])

StatusSensor(equipment, event) ==
    [cls |-> "StatusSensor", _equipment |-> equipment, _event |-> event]

StatusSensor_handle_coordinator_update(self, data) ==
    IF ~Has(data, "event") THEN Raised(self, KeyError)
    ELSE IF data.event # self._event THEN Returned(self, 0)
    ELSE IF ~Has(data, "id") \/ ~Has(self._equipment, "id")
        THEN Raised(self, KeyError)
    ELSE IF data.id # self._equipment.id THEN Returned(self, 0)
    ELSE Returned([self EXCEPT !._equipment = data], 1)

\* self._equipment["status"]["desc"] evaluates without raising
HasStatusDesc(self) ==
    Has(self._equipment, "status") /\ Has(self._equipment.status, "desc")

StatusSensor_name(self) ==
    IF ~Has(self._equipment, "name") THEN Throws(KeyError)
    ELSE Value(<<self._equipment.name, " Status">>)

StatusSensor_native_value(self) ==
    IF ~HasStatusDesc(self) THEN Throws(KeyError)
    ELSE Value(self._equipment.status.desc)

StatusSensor_icon(self) ==
    IF ~HasStatusDesc(self) THEN Throws(KeyError)
    ELSE IF self._equipment.status.desc # "Ok" THEN Value("mdi:alert-circle")
    ELSE Value("mdi:check-circle")

(***************************************************************************)
(* light.py: CircuitLight.                                                 *)
(***************************************************************************)
LIGHT == "light"
LIGHT_GROUP == "light_group"

\* entity.py, PoolEquipmentEntity: the id of the record the entity was
\* constructed with
equipment_id(circuit) == circuit.id

CircuitLight(equipment_class, circuit, lightthemes) ==
    [cls |-> "CircuitLight",
     equipment_class |-> equipment_class,
     equipment_id |-> equipment_id(circuit),
     _event |-> IF equipment_class = LIGHT THEN EVENT_CIRCUIT
                ELSE EVENT_LIGHTGROUP,
     _command |-> IF equipment_class = LIGHT THEN API_CIRCUIT_SETSTATE
                  ELSE API_LIGHTGROUP_SETSTATE,
     _lightthemes |-> lightthemes,
     _value |-> IF Has(circuit, "isOn") THEN Some(circuit.isOn) ELSE None,
     _available |-> TRUE,
     _lighting_theme |-> IF Has(circuit, "lightingTheme")
                         THEN Some(circuit.lightingTheme.val) ELSE None]

\* the two field merges of a matching circuit or light-group event
\* the merge of isOn overwriting the cached value with None when the event
\* does not carry it
MergeIsOn_destructive(self, data) ==
    [self EXCEPT !._value = IF Has(data, "isOn") THEN Some(data.isOn) ELSE None]

MergeIsOn(self, data) ==
    IF Has(data, "isOn") THEN [self EXCEPT !._value = Some(data.isOn)]
    ELSE self

\* _handle_coordinator_update comparing the id of availability events too
CircuitLight_update_availability_by_id(self, data) ==
    IF data.event = self._event /\ ~Has(data, "id") THEN Raised(self, KeyError)
    ELSE IF data.event = self._event /\ data.id = self.equipment_id
        THEN LET s1 == MergeIsOn(self, data)
             IN  IF ~Has(data, "lightingTheme") THEN Returned(s1, 1)
                 ELSE Returned([s1 EXCEPT !._lighting_theme =
                                              Some(data.lightingTheme.val)], 1)
    ELSE IF /\ data.event = EVENT_AVAILABILITY
            /\ Has(data, "id")
            /\ data.id = self.equipment_id
        THEN Returned([self EXCEPT !._available = data.available], 1)
    ELSE Returned(self, 0)

CircuitLight_handle_coordinator_update(self, data) ==
    IF ~Has(data, "event") THEN Raised(self, KeyError)
    ELSE IF data.event = self._event /\ ~Has(data, "id")
        THEN Raised(self, KeyError)
    ELSE IF data.event = self._event /\ data.id = self.equipment_id
        THEN LET s1 == MergeIsOn(self, data)
             IN  IF ~Has(data, "lightingTheme") THEN Returned(s1, 1)
                 ELSE IF ~Has(data.lightingTheme, "val")
                     THEN Raised(s1, KeyError)
                 ELSE Returned([s1 EXCEPT !._lighting_theme =
                                              Some(data.lightingTheme.val)], 1)
    ELSE IF data.event = EVENT_AVAILABILITY
        THEN IF ~Has(data, "available") THEN Raised(self, KeyError)
             ELSE Returned([self EXCEPT !._available = data.available], 1)
    ELSE Returned(self, 0)

\* kwargs of async_turn_on: a dict that may hold ATTR_EFFECT
ATTR_EFFECT == "effect"

\* async_turn_on without the return that follows the theme command
CircuitLight_turn_on_falls_through(self, kwargs) ==
    LET power == [url |-> self._command,
                  data |-> [id |-> self.equipment_id, state |-> TRUE]]
    IN  IF Has(kwargs, ATTR_EFFECT) /\ Len(self._lightthemes) > 0
        THEN LET njspc_value ==
                     ReverseLookup(self._lightthemes, kwargs[ATTR_EFFECT])
             IN  IF njspc_value = None THEN Ended(self, <<>>, 1)
                 ELSE Ended(self, << [url |-> API_CIRCUIT_SETTHEME,
                                data |-> [id |-> self.equipment_id,
                                          theme |-> njspc_value[1]]],
                               power >>, 0)
        ELSE Ended(self, <<power>>, 0)

CircuitLight_async_turn_on(self, kwargs) ==
    IF Has(kwargs, ATTR_EFFECT) /\ Len(self._lightthemes) > 0
    THEN LET njspc_value == ReverseLookup(self._lightthemes, kwargs[ATTR_EFFECT])
         IN  IF njspc_value = None THEN Ended(self, <<>>, 1)
             ELSE Ended(self, << [url |-> API_CIRCUIT_SETTHEME,
                            data |-> [id |-> self.equipment_id,
                                      theme |-> njspc_value[1]]] >>, 0)
    ELSE Ended(self, << [url |-> self._command,
                   data |-> [id |-> self.equipment_id, state |-> TRUE]] >>, 0)

\* async_turn_off setting the displayed value before the controller
\* reports it (self._value = False)
CircuitLight_turn_off_optimistic(self) ==
    Ended([self EXCEPT !._value = Some(FALSE)],
          << [url |-> self._command,
              data |-> [id |-> self.equipment_id, state |-> FALSE]] >>, 0)

CircuitLight_async_turn_off(self) ==
    Ended(self, << [url |-> self._command,
              data |-> [id |-> self.equipment_id, state |-> FALSE]] >>, 0)

CircuitLight_available(self) == Value(self._available)

CircuitLight_is_on(self) == Value(self._value)

CircuitLight_effect(self) ==
    IF /\ self._lighting_theme # None
       /\ self._lighting_theme[1] \in TableKeys(self._lightthemes)
    THEN Value(Some(TableGet(self._lightthemes, self._lighting_theme[1])))
    ELSE Value(None)

(***************************************************************************)
(* The display properties the host reads from an adapter.                  *)
(***************************************************************************)
\* TempSensor, RPMSensor, PowerSensor: native_value
Sensor_native_value(self) == Value(self._value)

Properties(self) ==
    CASE self.cls = "Climate" ->
            {"name", "target_temperature", "current_temperature", "min_temp",
             "max_temp", "preset_mode", "hvac_action"}
      [] self.cls = "SaltSensor" ->
            {"name", "native_value", "extra_state_attributes"}
      [] self.cls = "StatusSensor" -> {"name", "native_value", "icon"}
      [] self.cls = "CircuitLight" -> {"available", "is_on", "effect"}
      [] OTHER -> {"native_value"}

ReadProperty(self, p) ==
    IF self.cls = "Climate"
    THEN CASE p = "name" -> Climate_name(self)
           [] p = "target_temperature" -> Climate_target_temperature(self)
           [] p = "current_temperature" -> Climate_current_temperature(self)
           [] p = "min_temp" -> Climate_min_temp(self)
           [] p = "max_temp" -> Climate_max_temp(self)
           [] p = "preset_mode" -> Climate_preset_mode(self)
           [] p = "hvac_action" -> Climate_hvac_action(self)
    ELSE IF self.cls = "SaltSensor"
    THEN CASE p = "name" -> SaltSensor_name(self)
           [] p = "native_value" -> SaltSensor_native_value(self)
           [] p = "extra_state_attributes" ->
                 SaltSensor_extra_state_attributes(self)
    ELSE IF self.cls = "StatusSensor"
    THEN CASE p = "name" -> StatusSensor_name(self)
           [] p = "native_value" -> StatusSensor_native_value(self)
           [] p = "icon" -> StatusSensor_icon(self)
    ELSE IF self.cls = "CircuitLight"
    THEN CASE p = "available" -> CircuitLight_available(self)
           [] p = "is_on" -> CircuitLight_is_on(self)
           [] p = "effect" -> CircuitLight_effect(self)
    ELSE Sensor_native_value(self)

(***************************************************************************)
(* async_setup_entry of climate.py, sensor.py and light.py: the adapters   *)
(* a configuration gives.                                                  *)
(***************************************************************************)
\* temps.units.val of the configuration: 0 is Fahrenheit
UnitFlags == {0, 4}

HeatModeTables ==
    { <<>>, << <<1, "Off">>, <<3, "Heater">> >> }

LightThemeTables ==
    { <<>>, << <<0, "Off">>, <<4, "Party">> >>,
      << <<0, "Off">>, <<4, "Party">>, <<6, "Romance">> >> }

ClimateAdapters ==
    { Climate(b, hm, u) :
        b \in { BaseBody(id) : id \in Ids }
              \cup { Restrict(BaseBody(id), {"id", "name", "setPoint", "temp"}) :
                       id \in Ids },
        hm \in HeatModeTables, u \in UnitFlags }

TempSensorAdapters ==
    { TempSensor(BaseTemps, key, u) : key \in DOMAIN BaseTemps, u \in {"F", "C"} }

PumpSensorAdapters ==
    UNION { { RPMSensor(BasePump(id)), PowerSensor(BasePump(id)),
              StatusSensor(BasePump(id), EVENT_PUMP) } : id \in Ids }

ChlorinatorSensorAdapters ==
    UNION { { SaltSensor(BaseChlorinator(id)),
              StatusSensor(BaseChlorinator(id), EVENT_CHLORINATOR) } :
            id \in Ids }

LightAdapters ==
    { CircuitLight(ec, c, lt) :
        ec \in {LIGHT, LIGHT_GROUP},
        c \in { BaseCircuit(id) : id \in Ids }
              \cup { Restrict(BaseCircuit(id), {"id", "name"}) : id \in Ids },
        lt \in LightThemeTables }

Adapters ==
    ClimateAdapters \cup TempSensorAdapters \cup PumpSensorAdapters
    \cup ChlorinatorSensorAdapters \cup LightAdapters

(***************************************************************************)
(* The state machine.                                                      *)
(***************************************************************************)
TransportError == "TransportError"

\* arguments of the user commands
Temperatures == {None, Some(82)}
PresetLabels == {"Off", "Heater", "Unknown"}
EffectLabels == {"Off", "Party", "Romance", "Unknown"}
TurnOnKwargs == {<<>>} \cup { [effect |-> l] : l \in EffectLabels }

Idle == [op |-> "__init__", args |-> <<>>, refresh |-> 0,
         raised |-> NoException, sent |-> <<>>, logged |-> 0]

Init ==
    /\ adapter \in Adapters
    /\ call = Idle

\* the coordinator calls back the adapter with coordinator.data = data
Callback(data, r) ==
    /\ adapter' = r.self
    /\ call' = [op |-> "_handle_coordinator_update", args |-> <<data>>,
                refresh |-> r.refresh, raised |-> r.raised,
                sent |-> <<>>, logged |-> 0]

\* a command method ran; coordinator.api.command, when reached, returned
\* (ok) or raised a transport error, which the method lets through: the
\* commands after the one that raised are not reached
Command(op, args, r, ok) ==
    /\ call' = [op |-> op, args |-> args, refresh |-> 0,
                raised |-> IF r.raised # NoException THEN r.raised
                           ELSE IF r.sent # <<>> /\ ~ok THEN TransportError
                           ELSE NoException,
                sent |-> IF r.sent # <<>> /\ ~ok THEN <<r.sent[1]>>
                         ELSE r.sent,
                logged |-> r.logged]
    /\ adapter' = r.self

ClimateUpdate(data) ==
    /\ adapter.cls = "Climate"
    /\ Callback(data, Climate_handle_coordinator_update(adapter, data))

TempSensorUpdate(data) ==
    /\ adapter.cls = "TempSensor"
    /\ Callback(data, TempSensor_handle_coordinator_update(adapter, data))

RPMSensorUpdate(data) ==
    /\ adapter.cls = "RPMSensor"
    /\ Callback(data, RPMSensor_handle_coordinator_update(adapter, data))

PowerSensorUpdate(data) ==
    /\ adapter.cls = "PowerSensor"
    /\ Callback(data, PowerSensor_handle_coordinator_update(adapter, data))

SaltSensorUpdate(data) ==
    /\ adapter.cls = "SaltSensor"
    /\ Callback(data, SaltSensor_handle_coordinator_update(adapter, data))

StatusSensorUpdate(data) ==
    /\ adapter.cls = "StatusSensor"
    /\ Callback(data, StatusSensor_handle_coordinator_update(adapter, data))

CircuitLightUpdate(data) ==
    /\ adapter.cls = "CircuitLight"
    /\ Callback(data, CircuitLight_handle_coordinator_update(adapter, data))

SetTemperature(temperature, ok) ==
    /\ adapter.cls = "Climate"
    /\ Command("async_set_temperature", <<temperature>>,
               Climate_async_set_temperature(adapter, temperature), ok)

SetPresetMode(preset_mode, ok) ==
    /\ adapter.cls = "Climate"
    /\ Command("async_set_preset_mode", <<preset_mode>>,
               Climate_async_set_preset_mode(adapter, preset_mode), ok)

TurnOn(kwargs, ok) ==
    /\ adapter.cls = "CircuitLight"
    /\ Command("async_turn_on", <<kwargs>>,
               CircuitLight_async_turn_on(adapter, kwargs), ok)

TurnOff(ok) ==
    /\ adapter.cls = "CircuitLight"
    /\ Command("async_turn_off", <<>>, CircuitLight_async_turn_off(adapter), ok)

Next ==
    \/ \E data \in Events :
        \/ ClimateUpdate(data)
        \/ TempSensorUpdate(data)
        \/ RPMSensorUpdate(data)
        \/ PowerSensorUpdate(data)
        \/ SaltSensorUpdate(data)
        \/ StatusSensorUpdate(data)
        \/ CircuitLightUpdate(data)
    \/ \E ok \in BOOLEAN :
        \/ \E temperature \in Temperatures : SetTemperature(temperature, ok)
        \/ \E preset_mode \in PresetLabels : SetPresetMode(preset_mode, ok)
        \/ \E kwargs \in TurnOnKwargs : TurnOn(kwargs, ok)
        \/ TurnOff(ok)

Spec == Init /\ [][Next]_vars

(***************************************************************************)
(* sensor.py: async_setup_entry and the unique ids of the sensors it adds. *)
(***************************************************************************)
\* self.coordinator.controller_id: the identity of the one controller
controller_id == "controller"

\* coordinator.api.get_unique_id(suffix): a string made of the controller
\* identity and the suffix, different for different suffixes
get_unique_id(suffix) == controller_id \o "_" \o suffix

TempSensor_unique_id(self) == get_unique_id("temp_" \o self._key)

RPMSensor_unique_id(self) ==
    get_unique_id("pump_" \o ToString(self._pump.id) \o "_rpm")

PowerSensor_unique_id(self) ==
    get_unique_id("pump_" \o ToString(self._pump.id) \o "_watts")

SaltSensor_unique_id(self) ==
    get_unique_id("saltlevel_" \o ToString(self._chlorinator.id))

StatusSensor_unique_id(self) ==
    get_unique_id("status_" \o ToString(self._equipment.id))

\* the unique_id property of a sensor
Sensor_unique_id(self) ==
    CASE self.cls = "TempSensor" -> TempSensor_unique_id(self)
      [] self.cls = "RPMSensor" -> RPMSensor_unique_id(self)
      [] self.cls = "PowerSensor" -> PowerSensor_unique_id(self)
      [] self.cls = "SaltSensor" -> SaltSensor_unique_id(self)
      [] self.cls = "StatusSensor" -> StatusSensor_unique_id(self)

\* the keys of a dict in the order of iteration
RECURSIVE KeysOf(_, _)
KeysOf(d, done) ==
    IF DOMAIN d \subseteq done THEN <<>>
    ELSE LET key == CHOOSE k \in (DOMAIN d) \ done : TRUE
         IN  <<key>> \o KeysOf(d, done \cup {key})

\* isinstance(temps[key], int) or isinstance(temps[key], float): of the
\* temps section, units is a dict and the other keys are readings
IsNumber(temps, key) == key # "units"

\* the sensors of the temps section, one for each key with a number
RECURSIVE TempSensorsOf(_, _)
TempSensorsOf(temps, keys) ==
    IF keys = <<>> THEN <<>>
    ELSE (IF IsNumber(temps, Head(keys))
          THEN << TempSensor(temps, Head(keys), temps.units.name) >>
          ELSE <<>>)
         \o TempSensorsOf(temps, Tail(keys))

\* the three sensors of each pump, in the order of the list
RECURSIVE PumpSensorsOf(_)
PumpSensorsOf(pumps) ==
    IF pumps = <<>> THEN <<>>
    ELSE << RPMSensor(Head(pumps)), PowerSensor(Head(pumps)),
            StatusSensor(Head(pumps), EVENT_PUMP) >>
         \o PumpSensorsOf(Tail(pumps))

\* the two sensors of each chlorinator, in the order of the list
RECURSIVE ChlorinatorSensorsOf(_)
ChlorinatorSensorsOf(chlorinators) ==
    IF chlorinators = <<>> THEN <<>>
    ELSE << SaltSensor(Head(chlorinators)),
            StatusSensor(Head(chlorinators), EVENT_CHLORINATOR) >>
         \o ChlorinatorSensorsOf(Tail(chlorinators))

\* new_devices of async_setup_entry for coordinator.api._config = config
async_setup_entry(config) ==
    TempSensorsOf(config.temps, KeysOf(config.temps, {}))
    \o PumpSensorsOf(config.pumps)
    \o ChlorinatorSensorsOf(config.chlorinators)

\* the configurations: the temps section with any of the readings and its
\* units, and lists of at most MaxEquipment pumps and chlorinators, the ids
\* distinct within a list
IdLists ==
    { ids \in UNION { [1..n -> Ids] : n \in 0..MaxEquipment } :
        \A i, j \in 1..Len(ids) : i # j => ids[i] # ids[j] }

Configs ==
    { [temps |-> Restrict(BaseTemps, K) @@ [units |-> [name |-> u]],
       pumps |-> [i \in 1..Len(p) |-> BasePump(p[i])],
       chlorinators |-> [i \in 1..Len(c) |-> BaseChlorinator(c[i])]] :
        K \in SUBSET DOMAIN BaseTemps, u \in {"F", "C"},
        p \in IdLists, c \in IdLists }

\* no platform is set up yet
NoAdapter == [cls |-> "None"]

SetupInit ==
    /\ adapter = NoAdapter
    /\ call = Idle

\* Home Assistant sets up the sensor platform of a config entry;
\* async_add_entities is called with new_devices when it is not empty
SetupEntry(config) ==
    LET new_devices == async_setup_entry(config)
    IN  /\ call' = [op |-> "async_setup_entry", args |-> <<config>>,
                    refresh |-> 0, raised |-> NoException,
                    sent |-> <<>>, logged |-> 0,
                    new_devices |-> new_devices,
                    added |-> IF new_devices # <<>> THEN 1 ELSE 0]
        /\ UNCHANGED adapter

SetupNext == \E config \in Configs : SetupEntry(config)

SetupSpec == SetupInit /\ [][SetupNext]_vars

(***************************************************************************)
(* What the claims speak of: the last callback and its event, and the      *)
(* subscription of each adapter.                                           *)
(***************************************************************************)
\* the step is one call of _handle_coordinator_update; Event is its
\* coordinator.data
IsUpdate == call.op = "_handle_coordinator_update"
Event == call.args[1]

\* the event kind an adapter expects
ExpectedKind(self) ==
    CASE self.cls = "Climate" -> EVENT_BODY
      [] self.cls = "TempSensor" -> EVENT_TEMPS
      [] self.cls \in {"RPMSensor", "PowerSensor"} -> EVENT_PUMP
      [] self.cls = "SaltSensor" -> EVENT_CHLORINATOR
      [] self.cls \in {"StatusSensor", "CircuitLight"} -> self._event

\* the subject id of an adapter; a TempSensor is bound to a key and has none
HasSubjectId(self) == self.cls # "TempSensor"
SubjectId(self) ==
    CASE self.cls = "Climate" -> self._body.id
      [] self.cls \in {"RPMSensor", "PowerSensor"} -> self._pump.id
      [] self.cls = "SaltSensor" -> self._chlorinator.id
      [] self.cls = "StatusSensor" -> self._equipment.id
      [] self.cls = "CircuitLight" -> self.equipment_id

\* kind and subject id of the event are the adapter's
MatchesKindAndId(self, data) ==
    /\ data.event = ExpectedKind(self)
    /\ HasSubjectId(self)
    /\ Has(data, "id")
    /\ data.id = SubjectId(self)

\* the subscription of each adapter as its class has it: kind and id, but
\* the kind alone for a TempSensor and for the availability events of a
\* CircuitLight
Subscribed(self, data) ==
    \/ MatchesKindAndId(self, data)
    \/ self.cls = "TempSensor" /\ data.event = EVENT_TEMPS
    \/ self.cls = "CircuitLight" /\ data.event = EVENT_AVAILABILITY

\* C1, as claimed, in its "only if" half: the cached state of an adapter
\* changes only if the event's kind and id are the adapter's, the
\* availability kind (of the adapters that hold an available flag) being
\* the only one that matches by kind alone.
C1_StateChangesOnlyIfKindAndIdMatch ==
    [][(IsUpdate' /\ adapter' # adapter) =>
         \/ MatchesKindAndId(adapter, Event')
         \/ /\ adapter.cls = "CircuitLight"
            /\ Event'.event = EVENT_AVAILABILITY]_vars

\* what a subscribed event that carries the tracked fields leaves in the
\* cache `after`
HoldsEventValues(before, after, data) ==
    CASE before.cls = "RPMSensor" ->
            Has(data, "rpm") => after._value = data.rpm
      [] before.cls = "PowerSensor" ->
            Has(data, "watts") => after._value = data.watts
      [] before.cls = "TempSensor" ->
            Has(data, before._key) =>
                /\ after._value % 10 = 0
                /\ after._value - data[before._key] \in -5..5
      [] before.cls = "Climate" -> after._body = data
      [] before.cls = "SaltSensor" -> after._chlorinator = data
      [] before.cls = "StatusSensor" -> after._equipment = data
      [] before.cls = "CircuitLight" ->
            IF data.event = EVENT_AVAILABILITY
            THEN after._available = data.available
            ELSE /\ Has(data, "isOn") => after._value = Some(data.isOn)
                 /\ Has(data, "lightingTheme")
                       => after._lighting_theme = Some(data.lightingTheme.val)

\* C1, amended: the cached state changes only on an event the adapter
\* subscribes to (kind and id; kind alone for a TempSensor and for the
\* availability events of a CircuitLight), and a subscribed event that
\* carries the tracked field leaves its value in the cache; a pump event for
\* id 7 with rpm 2200 sets the RPM adapter of pump 7 to 2200 and leaves the
\* one of pump 8 unchanged.
C1_StateChangesOnlyOnSubscribedEvent ==
    [][IsUpdate' =>
         /\ adapter' # adapter => Subscribed(adapter, Event')
         /\ Subscribed(adapter, Event')
               => HoldsEventValues(adapter, adapter', Event')
         /\ (/\ adapter.cls = "RPMSensor"
             /\ Event'.event = EVENT_PUMP
             /\ Has(Event', "id") /\ Event'.id = 7
             /\ Has(Event', "rpm") /\ Event'.rpm = 2200) =>
                /\ adapter._pump.id = 7 => adapter'._value = 2200
                /\ adapter._pump.id = 8 => adapter' = adapter]_vars

\* the RPM adapter of pump 7 shows the 2200 rpm of the pump event it was
\* called with
C1_Witness ==
    /\ IsUpdate
    /\ adapter.cls = "RPMSensor"
    /\ adapter._pump.id = 7
    /\ Event.event = EVENT_PUMP
    /\ Has(Event, "id") /\ Event.id = 7
    /\ Has(Event, "rpm") /\ Event.rpm = 2200
    /\ adapter._value = 2200
    /\ call.refresh = 1

\* the fields of the cached record or value that the adapter's display reads
Tracked(self) ==
    CASE self.cls = "Climate" ->
            {"name", "setPoint", "temp", "type", "heatMode", "heatStatus"}
      [] self.cls = "SaltSensor" ->
            {"name", "saltLevel", "saltTarget", "saltRequired"}
      [] self.cls = "StatusSensor" -> {"name", "status"}
      [] self.cls = "RPMSensor" -> {"rpm"}
      [] self.cls = "PowerSensor" -> {"watts"}
      [] self.cls = "TempSensor" -> {self._key}
      [] self.cls = "CircuitLight" -> {"isOn", "lightingTheme"}

\* the cached record of the adapters that hold one
Record(self) ==
    CASE self.cls = "Climate" -> self._body
      [] self.cls = "SaltSensor" -> self._chlorinator
      [] self.cls = "StatusSensor" -> self._equipment

\* every tracked field the event does not carry is after the callback what
\* it was before
AbsentFieldsKept(before, after, data) ==
    CASE before.cls \in {"Climate", "SaltSensor", "StatusSensor"} ->
            \A f \in (Tracked(before) \cap DOMAIN Record(before)) \ DOMAIN data :
                Has(Record(after), f) /\ Record(after)[f] = Record(before)[f]
      [] before.cls \in {"RPMSensor", "PowerSensor", "TempSensor"} ->
            Tracked(before) \cap DOMAIN data = {}
                => after._value = before._value
      [] before.cls = "CircuitLight" ->
            /\ ~Has(data, "isOn") => after._value = before._value
            /\ ~Has(data, "lightingTheme")
                  => after._lighting_theme = before._lighting_theme

C3_RefreshOnceIffSubscribed ==
    [][IsUpdate' =>
         call'.refresh = IF Subscribed(adapter, Event') THEN 1 ELSE 0]_vars

\* the codes a code->label table maps to `label`
CodesFor(table, label) ==
    { table[i][1] : i \in { j \in 1..Len(table) : table[j][2] = label } }

\* the label has no code: nothing sent, one error logged, nothing raised;
\* it has one: exactly one command, to url, for the subject, with the code
LabelCommand(table, label, url, field, id) ==
    IF CodesFor(table, label) = {}
    THEN /\ call.sent = <<>>
         /\ call.logged = 1
         /\ call.raised = NoException
    ELSE /\ Len(call.sent) = 1
         /\ call.sent[1].url = url
         /\ DOMAIN call.sent[1].data = {"id", field}
         /\ call.sent[1].data.id = id
         /\ call.sent[1].data[field] \in CodesFor(table, label)
         /\ call.logged = 0

IsSetPreset == call.op = "async_set_preset_mode"
IsTurnOnWithEffect ==
    call.op = "async_turn_on" /\ Has(call.args[1], ATTR_EFFECT)

\* C4, as claimed: a preset or a light effect requested with a label that no
\* code of the adapter's table maps to sends no command, logs the error and
\* raises nothing; a label of the table sends exactly one command carrying
\* its code.
C4_UnknownLabelSendsNothing ==
    /\ IsSetPreset =>
         LabelCommand(adapter._heatmodes, call.args[1], API_BODY_HEATMODE,
                      "mode", adapter._body.id)
    /\ IsTurnOnWithEffect =>
         LabelCommand(adapter._lightthemes, call.args[1][ATTR_EFFECT],
                      API_CIRCUIT_SETTHEME, "theme", adapter.equipment_id)

\* C4, amended: the same, for every preset, and for the effect of a light
\* whose theme table is not empty (a light with an empty table ignores the
\* effect argument: it sends the plain power-on command and logs nothing).
C4_UnknownLabelSendsNothingIfThemed ==
    /\ IsSetPreset =>
         LabelCommand(adapter._heatmodes, call.args[1], API_BODY_HEATMODE,
                      "mode", adapter._body.id)
    /\ (IsTurnOnWithEffect /\ Len(adapter._lightthemes) > 0) =>
         LabelCommand(adapter._lightthemes, call.args[1][ATTR_EFFECT],
                      API_CIRCUIT_SETTHEME, "theme", adapter.equipment_id)
    /\ (IsTurnOnWithEffect /\ Len(adapter._lightthemes) = 0) =>
         /\ call.logged = 0
         /\ call.sent = << [url |-> adapter._command,
                            data |-> [id |-> adapter.equipment_id,
                                      state |-> TRUE]] >>

\* preset "Unknown" was requested of a Climate whose table has other labels:
\* nothing was sent and the error was logged
C4_Witness ==
    /\ IsSetPreset
    /\ call.args[1] = "Unknown"
    /\ Len(adapter._heatmodes) > 0
    /\ call.sent = <<>>
    /\ call.logged = 1
    /\ call.raised = NoException

\* the command is the power-on command {id, state: true}
IsPowerOn(command) ==
    Has(command.data, "state") /\ command.data.state = TRUE

\* C5, as claimed: whatever the theme table, async_turn_on with an effect
\* argument never issues the power-on command; it issues at most the
\* theme-set command.
C5_EffectNeverPowersOn ==
    IsTurnOnWithEffect =>
        \A i \in 1..Len(call.sent) :
            /\ ~IsPowerOn(call.sent[i])
            /\ call.sent[i].url = API_CIRCUIT_SETTHEME

\* C5, amended: for every light whose theme table is not empty,
\* async_turn_on with an effect argument never issues the power-on command;
\* it issues at most the theme-set command.
C5_EffectNeverPowersOnIfThemed ==
    (IsTurnOnWithEffect /\ Len(adapter._lightthemes) > 0) =>
        /\ Len(call.sent) <= 1
        /\ \A i \in 1..Len(call.sent) :
              /\ ~IsPowerOn(call.sent[i])
              /\ call.sent[i].url = API_CIRCUIT_SETTHEME

\* a light with the table {0: Off, 4: Party} was turned on with effect
\* Party: the one command sent is the theme-set command with theme 4
C5_Witness ==
    /\ IsTurnOnWithEffect
    /\ call.args[1][ATTR_EFFECT] = "Party"
    /\ adapter._lightthemes = << <<0, "Off">>, <<4, "Party">> >>
    /\ call.sent = << [url |-> API_CIRCUIT_SETTHEME,
                       data |-> [id |-> adapter.equipment_id, theme |-> 4]] >>

\* C6, as claimed: after any sequence of events, no display property of any
\* adapter raises, whatever fields the cached record lacks.
C6_PropertiesNeverRaise ==
    \A p \in Properties(adapter) :
        ReadProperty(adapter, p).raised = NoException

\* the body record names a pool: type val 0, or no type discriminant
IsPoolRecord(body) ==
    \/ ~Has(body, "type")
    \/ ~Has(body.type, "val")
    \/ body.type.val = 0

\* C7: min_temp and max_temp never raise and give 70/95 for a pool in
\* imperial units (flag 0), 21/35 for a pool in metric units, 90/104 for a
\* spa (any other type val) in imperial and 32/40 for a spa in metric
\* units; a record without the type discriminant gives the pool pair.
C7_MinMaxTempIsOneOfFourPairs ==
    adapter.cls = "Climate" =>
        LET lo == Climate_min_temp(adapter)
            hi == Climate_max_temp(adapter)
            pool == IsPoolRecord(adapter._body)
            imperial == adapter._units = 0
        IN  /\ lo.raised = NoException
            /\ hi.raised = NoException
            /\ (pool /\ imperial) => <<lo.value, hi.value>> = <<Some(70), Some(95)>>
            /\ (pool /\ ~imperial) => <<lo.value, hi.value>> = <<Some(21), Some(35)>>
            /\ (~pool /\ imperial) => <<lo.value, hi.value>> = <<Some(90), Some(104)>>
            /\ (~pool /\ ~imperial) => <<lo.value, hi.value>> = <<Some(32), Some(40)>>

\* a Climate in metric units has taken a body event without a type: its
\* range is the pool's 21..35
C7_Witness ==
    /\ IsUpdate
    /\ call.refresh = 1
    /\ adapter.cls = "Climate"
    /\ adapter._units # 0
    /\ ~Has(adapter._body, "type")
    /\ Climate_min_temp(adapter).value = Some(21)
    /\ Climate_max_temp(adapter).value = Some(35)

\* C8: hvac_action never raises; it is heating for the heat-status codes 1,
\* 2, 4 and 6, cooling for 3 and 8, off for 0 and 128, and off for every
\* other code and for a record without heatStatus.
C8_HvacActionFollowsTable ==
    adapter.cls = "Climate" =>
        LET r == Climate_hvac_action(adapter)
            known == /\ Has(adapter._body, "heatStatus")
                     /\ Has(adapter._body.heatStatus, "val")
            code == adapter._body.heatStatus.val
        IN  /\ r.raised = NoException
            /\ r.value =
                 IF known /\ code \in {1, 2, 4, 6} THEN Some("heating")
                 ELSE IF known /\ code \in {3, 8} THEN Some("cooling")
                 ELSE Some("off")

\* a Climate has taken a body event with heat status 8: it shows cooling
C8_Witness ==
    /\ IsUpdate
    /\ call.refresh = 1
    /\ adapter.cls = "Climate"
    /\ Has(adapter._body, "heatStatus")
    /\ adapter._body.heatStatus.val = 8
    /\ Climate_hvac_action(adapter).value = Some("cooling")

\* C9: on an event of its kind and id a Climate, SaltSensor or StatusSensor
\* replaces its cached record by the event payload, so that the record
\* equals the payload; a CircuitLight overwrites its on/off value and its
\* theme only, each only when the payload carries it.
C9_ReplaceWholesaleOrMergeByField ==
    [][(IsUpdate' /\ MatchesKindAndId(adapter, Event')) =>
         CASE adapter.cls = "Climate" ->
                adapter' = [adapter EXCEPT !._body = Event']
           [] adapter.cls = "SaltSensor" ->
                adapter' = [adapter EXCEPT !._chlorinator = Event']
           [] adapter.cls = "StatusSensor" ->
                adapter' = [adapter EXCEPT !._equipment = Event']
           [] adapter.cls = "CircuitLight" ->
                adapter' =
                  [adapter EXCEPT
                     !._value = IF Has(Event', "isOn")
                                THEN Some(Event'.isOn) ELSE @,
                     !._lighting_theme =
                         IF Has(Event', "lightingTheme")
                         THEN Some(Event'.lightingTheme.val) ELSE @]
           [] OTHER -> TRUE]_vars

\* a Climate has taken a body event of its id that carries no setPoint: its
\* record is the payload and holds a setPoint no more
C9_Witness ==
    /\ IsUpdate
    /\ call.refresh = 1
    /\ adapter.cls = "Climate"
    /\ MatchesKindAndId(adapter, Event)
    /\ ~Has(Event, "setPoint")
    /\ adapter._body = Event
    /\ ~Has(adapter._body, "setPoint")

\* C10: a light is constructed available; an availability event sets its
\* available flag to the event's value whatever id the event carries, and
\* changes nothing else of the light; no other event and no command changes
\* the flag.
C10_AvailabilityByKindAlone ==
    /\ (call.op = "__init__" /\ adapter.cls = "CircuitLight")
          => CircuitLight_available(adapter).value = Some(TRUE)
    /\ [][adapter.cls = "CircuitLight" =>
            IF IsUpdate' /\ Event'.event = EVENT_AVAILABILITY
            THEN adapter' = [adapter EXCEPT !._available = Event'.available]
            ELSE CircuitLight_available(adapter').value
                    = CircuitLight_available(adapter).value]_vars

\* a light has taken an availability event that carries the id of another
\* subject and says unavailable: the light is unavailable
C10_Witness ==
    /\ IsUpdate
    /\ adapter.cls = "CircuitLight"
    /\ Event.event = EVENT_AVAILABILITY
    /\ Has(Event, "id") /\ Event.id # adapter.equipment_id
    /\ Event.available = FALSE
    /\ CircuitLight_available(adapter).value = Some(FALSE)
    /\ call.refresh = 1

\* the step is one call of a command method
IsCommand ==
    call.op \in {"async_set_temperature", "async_set_preset_mode",
                 "async_turn_on", "async_turn_off"}

\* what a controllable adapter displays: set point and preset of a Climate,
\* on/off value and theme of a CircuitLight
Displayed(self) ==
    CASE self.cls = "Climate" ->
            <<Climate_target_temperature(self), Climate_preset_mode(self)>>
      [] self.cls = "CircuitLight" ->
            <<CircuitLight_is_on(self), CircuitLight_effect(self)>>
      [] OTHER -> <<>>

\* C11: a user command (async_set_temperature, async_set_preset_mode,
\* async_turn_on, async_turn_off) hands at most one command to
\* coordinator.api.command and leaves the cached state of the adapter as it
\* was, whether the command is delivered, the transport raises or the method
\* fails before sending; what the adapter displays (on/off value, theme, set
\* point, preset) changes only in a callback with an event the adapter
\* subscribes to.
C11_CommandsLeaveCachedState ==
    [][/\ IsCommand' =>
            /\ adapter' = adapter
            /\ Len(call'.sent) <= 1
            /\ call'.raised = TransportError => Len(call'.sent) = 1
       /\ Displayed(adapter') # Displayed(adapter) =>
            /\ IsUpdate'
            /\ Subscribed(adapter, Event')]_vars

\* a light that shows on was told to turn off and the transport raised: the
\* one power-off command was handed over and the light still shows on
C11_Witness ==
    /\ call.op = "async_turn_off"
    /\ call.raised = TransportError
    /\ call.sent = << [url |-> adapter._command,
                       data |-> [id |-> adapter.equipment_id,
                                 state |-> FALSE]] >>
    /\ CircuitLight_is_on(adapter).value = Some(Some(TRUE))

\* the adapters whose callback replaces the cached record, id included
ReplacesRecord(self) == self.cls \in {"Climate", "SaltSensor", "StatusSensor"}

\* C12: the subject id of a Climate, SaltSensor or StatusSensor adapter
\* never changes: whatever event the adapter is called back with, matching
\* or not, and whatever command it runs, the cached record still holds an id
\* and it is the id held before, hence the id of construction; every
\* command the adapter sends carries that id, and a callback that returns
\* refreshes exactly on the events of the adapter's kind with that id.
C12_SubjectIdNeverChanges ==
    [][ReplacesRecord(adapter) =>
         /\ Has(Record(adapter'), "id")
         /\ SubjectId(adapter') = SubjectId(adapter)
         /\ IsCommand' =>
               \A i \in 1..Len(call'.sent) :
                   call'.sent[i].data.id = SubjectId(adapter)
         /\ (IsUpdate' /\ call'.raised = NoException) =>
               (call'.refresh = 1 <=> MatchesKindAndId(adapter, Event'))]_vars

\* the status sensor of chlorinator 8 has replaced its record by a partial
\* chlorinator event for id 8: the record is no longer the one of
\* construction and its id is still 8
C12_Witness ==
    /\ IsUpdate
    /\ adapter.cls = "StatusSensor"
    /\ adapter._event = EVENT_CHLORINATOR
    /\ call.refresh = 1
    /\ adapter._equipment = Event
    /\ DOMAIN adapter._equipment = {"event", "id"}
    /\ SubjectId(adapter) = 8

\* the step is one call of async_setup_entry
IsSetup == call.op = "async_setup_entry"

\* C13, as claimed: the sensors that async_setup_entry creates for one
\* configuration have pairwise distinct unique ids (get_unique_id keeping
\* different suffixes apart, the ids distinct within the pumps and within
\* the chlorinators); in particular the StatusSensor of a pump and the
\* StatusSensor of a chlorinator with the same numeric id differ in their
\* unique ids.
C13_SensorUniqueIdsDistinct ==
    IsSetup =>
        \A i, j \in 1..Len(call.new_devices) :
            i # j => Sensor_unique_id(call.new_devices[i])
                        # Sensor_unique_id(call.new_devices[j])

====
